---- MODULE Spec2Model ----
(***************************************************************************)
(* TelegramHandler (src/telegram_logger.py): a logging handler that queues *)
(* formatted records and, from one background asyncio task, drains the     *)
(* queue every flush interval, HTML-escapes the joined lines, splits the   *)
(* text into chunks and posts each chunk to the Telegram API.              *)
(*                                                                         *)
(* Texts are sequences of one-character strings.  Steps of the handler are *)
(* the pieces of code that asyncio runs without suspension: an action ends *)
(* where the coroutine it models awaits (the interval sleep, the HTTP      *)
(* post, the awaited task, the session close).                             *)
(***************************************************************************)
EXTENDS Integers, Sequences, FiniteSets, TLC

(***************************************************************************)
(* Bounds of the model.                                                    *)
(***************************************************************************)
\* emit() calls that enqueue a line
MaxEmit == 2
\* flush tasks start() may create
MaxTasks == 3
\* callers of async_close()
MaxClosers == 2
\* length of the long line before its last character, "&": escaped, the line
\* is longer than one chunk
LongLen == 4080
\* the chunker's own inputs: texts of at most MaxLen characters, limits 1..MaxL
MaxLen == 5
MaxL == 3

(***************************************************************************)
(* Program constants.                                                      *)
(***************************************************************************)
TELEGRAM_MAX_MESSAGE_LENGTH == 4096

NL == "\n"

Rep(c, n) == [i \in 1..n |-> c]

Str(S, n) == UNION {[1..k -> S] : k \in 0..n}

Max(S) == CHOOSE x \in S : \A y \in S : y <= x

Min(a, b) == IF a < b THEN a ELSE b

(***************************************************************************)
(* html.escape(s) with quote=True: & < > " ' become character entities.    *)
(***************************************************************************)
EscChar(c) ==
    CASE c = "&" -> <<"&", "a", "m", "p", ";">>
      [] c = "<" -> <<"&", "l", "t", ";">>
      [] c = ">" -> <<"&", "g", "t", ";">>
      [] c = "\"" -> <<"&", "q", "u", "o", "t", ";">>
      [] c = "'" -> <<"&", "#", "x", "2", "7", ";">>
      [] OTHER -> <<c>>

RECURSIVE escape(_)
escape(s) ==
    IF Len(s) = 0 THEN <<>>
    ELSE IF Len(s) = 1 THEN EscChar(s[1])
    ELSE LET h == Len(s) \div 2
         IN escape(SubSeq(s, 1, h)) \o escape(SubSeq(s, h + 1, Len(s)))

(***************************************************************************)
(* "\n".join(lines)                                                        *)
(***************************************************************************)
RECURSIVE join(_)
join(lines) ==
    IF Len(lines) = 0 THEN <<>>
    ELSE IF Len(lines) = 1 THEN lines[1]
    ELSE lines[1] \o <<NL>> \o join(Tail(lines))

(***************************************************************************)
(* str.rfind("\n", lo, hi): the highest 0-based index i, lo <= i < hi, of  *)
(* a newline, or -1.  str.lstrip("\n"): the text without its leading       *)
(* newlines.                                                               *)
(***************************************************************************)
rfind(text, lo, hi) ==
    LET S == {i \in lo..(Min(hi, Len(text)) - 1) : text[i + 1] = NL}
    IN IF S = {} THEN -1 ELSE Max(S)

\* a strip that looks for the first character to keep and, finding none,
\* returns the text as it is
LstripFind(text) ==
    IF \A i \in 1..Len(text) : text[i] = NL THEN text
    ELSE LET k == CHOOSE i \in 1..Len(text) :
                      text[i] # NL /\ \A j \in 1..(i - 1) : text[j] = NL
         IN SubSeq(text, k, Len(text))

lstrip(text) ==
    IF \A i \in 1..Len(text) : text[i] = NL THEN <<>>
    ELSE LET k == CHOOSE i \in 1..Len(text) :
                      text[i] # NL /\ \A j \in 1..(i - 1) : text[j] = NL
         IN SubSeq(text, k, Len(text))

(***************************************************************************)
(* _split_text.  One iteration of its loop is LoopBody; split_text is the  *)
(* whole function.                                                         *)
(***************************************************************************)
\* a plausible slip: the hard split takes one character too many
SplitPosLong(text, max_length) ==
    LET p == rfind(text, 0, max_length)
    IN IF p = -1 THEN max_length + 1 ELSE p

\* lines 115-118: the last newline within the limit, else the limit
split_pos(text, max_length) ==
    LET p == rfind(text, 0, max_length)
    IN IF p = -1 THEN max_length ELSE p

\* the rest taken from one character after the split, as if the split were
\* always at a newline to skip
RestSkip(text, pos) == lstrip(SubSeq(text, pos + 2, Len(text)))

\* line 121: text[split_pos:].lstrip("\n")
Rest(text, pos) == lstrip(SubSeq(text, pos + 1, Len(text)))

\* lines 109-121: the loop's test and one pass through its body
LoopBody(text, max_length, chunks) ==
    IF text = <<>> THEN [text |-> text, chunks |-> chunks, done |-> TRUE]
    ELSE IF Len(text) <= max_length
    THEN [text |-> text, chunks |-> Append(chunks, text), done |-> TRUE]
    ELSE LET pos == split_pos(text, max_length)
         IN [text |-> Rest(text, pos),
             chunks |-> Append(chunks, SubSeq(text, 1, pos)),
             done |-> FALSE]

RECURSIVE SplitLoop(_, _, _)
SplitLoop(text, max_length, chunks) ==
    LET r == LoopBody(text, max_length, chunks)
    IN IF r.done THEN r.chunks ELSE SplitLoop(r.text, max_length, r.chunks)

split_text(text, max_length) ==
    IF Len(text) <= max_length THEN <<text>>
    ELSE SplitLoop(text, max_length, <<>>)


(***************************************************************************)
(* The lines.  Formatted lists the texts self.format(record) returns in    *)
(* the model; the state names a line by its place in this list and the     *)
(* text is looked up where the code reads it.                              *)
(***************************************************************************)
LongLine == Rep("a", LongLen) \o <<"&">>

Formatted == << <<>>, <<"<">>, LongLine >>

Lines == 1..Len(Formatted)

\* what _split_text is called with when it is run on its own
Alphabet == {"a", "b", NL}

(***************************************************************************)
(* The state.                                                              *)
(*   queue    self._queue: the pending lines, oldest first; an entry is    *)
(*            the line s with the serial number n of the emit() that       *)
(*            enqueued it (n is history, the code holds only the text)     *)
(*   session  self._session: "none" (None), "open", or "closed" (a closed  *)
(*            ClientSession the field still refers to)                     *)
(*   task     self._task: 0 (None) or the task created by start()          *)
(*   tpc      where each flush task is suspended                           *)
(*   tcancel  a cancellation requested of the task and not yet thrown      *)
(*            into its coroutine                                           *)
(*   tcanc    history: cancel() was requested of the task while it ran     *)
(*   tfin     history: how many tasks had been created when the task       *)
(*            finished                                                     *)
(*   tcur     the pass the task is in: the drained entries (lines), the    *)
(*            number n of parts they were split into, the part k being     *)
(*            sent, and the pass's number (history)                        *)
(*   cpc, cw  where each async_close() call is, and the task it awaits     *)
(*   waitq    the callers awaiting a task, in the order they began         *)
(*   csnap    history: how many lines were enqueued when async_close()     *)
(*            was called                                                   *)
(*   sent     history: the _send_message calls, in call order, each the    *)
(*            part k of the parts of the drained entries batch             *)
(*   nemit, npass, ntask  lines enqueued, non-empty passes, tasks created  *)
(*   last     history: the step just taken                                 *)
(*   s_in, s_max, s_text, s_chunks, s_pc  one call of _split_text run step *)
(*            by step: its arguments, text, chunks, and position           *)
(***************************************************************************)
VARIABLES queue, session, task, tpc, tcancel, tcanc, tfin, tcur,
          cpc, cw, waitq, csnap, sent, nemit, npass, ntask, last,
          s_in, s_max, s_text, s_chunks, s_pc

hvars == <<queue, session, task, tpc, tcancel, tcanc, tfin, tcur,
           cpc, cw, waitq, csnap, sent, nemit, npass, ntask, last>>

svars == <<s_in, s_max, s_text, s_chunks, s_pc>>

vars == <<hvars, svars>>

Tasks == 1..MaxTasks

Closers == 1..MaxClosers

\* a task that has finished: returned, ended by CancelledError, or by another exception
Finished == {"done", "cancelled", "failed"}

Step(op, id, info) == [op |-> op, id |-> id, info |-> info]

NoPass == [pass |-> 0, batch |-> <<>>, n |-> 0, k |-> 0]

\* the texts and the serial numbers of drained entries
Texts(batch) == [i \in 1..Len(batch) |-> Formatted[batch[i].s]]

Ids(batch) == [i \in 1..Len(batch) |-> batch[i].n]

\* the part sent without its wrapper
WrapBare(part) == part

\* line 99: f"<pre>{part}</pre>"
Wrap(part) == <<"<", "p", "r", "e", ">">> \o part \o <<"<", "/", "p", "r", "e", ">">>

\* line 95
max_content == TELEGRAM_MAX_MESSAGE_LENGTH - 13

\* the whole escaped text sent as one message
PartsUnsplit(lines) == <<escape(join(lines))>>

\* lines 90-97: the parts of the drained lines
Parts(lines) == split_text(escape(join(lines)), max_content)

\* Parts of every list of lines the bounds allow (with @@ the table is built
\* once, not at every use)
PartsOf ==
    [lines \in Str(Lines, MaxEmit) |-> Parts([i \in 1..Len(lines) |-> Formatted[lines[i]]])] @@ <<>>

PartsOfBatch(batch) == PartsOf[[i \in 1..Len(batch) |-> batch[i].s]]

\* the text a recorded call handed to _send_message
Payload(r) == Wrap(PartsOfBatch(r.batch)[r.k])

\* lines 52-57: a session that is missing or closed is replaced by a new one
get_session(s) == IF s = "none" \/ s = "closed" THEN "open" ELSE s

Init ==
    /\ queue = <<>>
    /\ session = "none"
    /\ task = 0
    /\ tpc = [t \in Tasks |-> "unborn"]
    /\ tcancel = [t \in Tasks |-> FALSE]
    /\ tcanc = [t \in Tasks |-> FALSE]
    /\ tfin = [t \in Tasks |-> 0]
    /\ tcur = [t \in Tasks |-> NoPass]
    /\ cpc = [c \in Closers |-> "idle"]
    /\ cw = [c \in Closers |-> 0]
    /\ waitq = <<>>
    /\ csnap = [c \in Closers |-> 0]
    /\ sent = <<>>
    /\ nemit = 0
    /\ npass = 0
    /\ ntask = 0
    /\ last = Step("init", 0, "")
    /\ s_in = <<>>
    /\ s_max = 0
    /\ s_text = <<>>
    /\ s_chunks = <<>>
    /\ s_pc = "off"

(***************************************************************************)
(* The flush pass.                                                         *)
(***************************************************************************)
\* lines 98-99 and 125-135: the loop over parts, up to the next await.  With a
\* part left, _send_message is called with it wrapped, takes the session and
\* awaits the post; with none left the pass is over and the task sleeps again
\* (line 64) or, in the final pass, ends (line 69).
SendOrEnd(t, cur, final) ==
    IF cur.k < cur.n
    THEN /\ sent' = Append(sent, [pass |-> cur.pass, batch |-> cur.batch,
                                  k |-> cur.k + 1, task |-> t])
         /\ session' = get_session(session)
         /\ tcur' = [tcur EXCEPT ![t] = [cur EXCEPT !.k = cur.k + 1]]
         /\ tpc' = [tpc EXCEPT ![t] = IF final THEN "final_send" ELSE "send"]
    ELSE /\ UNCHANGED <<sent, session>>
         /\ tcur' = [tcur EXCEPT ![t] = NoPass]
         /\ tpc' = [tpc EXCEPT ![t] = IF final THEN "done" ELSE "sleep"]

\* a _flush that takes the session before it looks at what it drained
FlushOpens(t, final) ==
    IF queue = <<>>
    THEN /\ session' = get_session(session)
         /\ tcur' = [tcur EXCEPT ![t] = NoPass]
         /\ tpc' = [tpc EXCEPT ![t] = IF final THEN "done" ELSE "sleep"]
         /\ UNCHANGED <<sent, queue, npass>>
    ELSE /\ queue' = <<>>
         /\ npass' = npass + 1
         /\ SendOrEnd(t, [pass |-> npass + 1, batch |-> queue,
                          n |-> Len(PartsOfBatch(queue)), k |-> 0], final)

\* lines 77-99: _flush, up to its first await: drain the queue, return if
\* nothing was queued, else split the escaped text and send the first part
flush(t, final) ==
    IF queue = <<>>
    THEN /\ SendOrEnd(t, NoPass, final)
         /\ UNCHANGED <<queue, npass>>
    ELSE /\ queue' = <<>>
         /\ npass' = npass + 1
         /\ SendOrEnd(t, [pass |-> npass + 1, batch |-> queue,
                          n |-> Len(PartsOfBatch(queue)), k |-> 0], final)

(***************************************************************************)
(* start() and emit().                                                     *)
(***************************************************************************)
\* a start() that creates a task whether or not one exists
StartAlways ==
    /\ ntask < MaxTasks
    /\ ntask' = ntask + 1
    /\ task' = ntask + 1
    /\ tpc' = [tpc EXCEPT ![ntask + 1] = "created"]
    /\ last' = Step("start", ntask + 1, "spawn")
    /\ UNCHANGED <<queue, session, tcancel, tcanc, tfin, tcur, cpc, cw, waitq,
                   csnap, sent, nemit, npass, svars>>

\* lines 39-42
start ==
    \/ /\ task = 0
       /\ ntask < MaxTasks
       /\ ntask' = ntask + 1
       /\ task' = ntask + 1
       /\ tpc' = [tpc EXCEPT ![ntask + 1] = "created"]
       /\ last' = Step("start", ntask + 1, "spawn")
       /\ UNCHANGED <<queue, session, tcancel, tcanc, tfin, tcur, cpc, cw, waitq,
                      csnap, sent, nemit, npass, svars>>
    \/ /\ task # 0
       /\ last' = Step("start", task, "noop")
       /\ UNCHANGED <<queue, session, task, tpc, tcancel, tcanc, tfin, tcur, cpc,
                      cw, waitq, csnap, sent, nemit, npass, ntask, svars>>

\* an emit() that puts the new line at the head of the queue
EmitFront ==
    \/ \E line \in Lines :
          /\ nemit < MaxEmit
          /\ queue' = <<[n |-> nemit + 1, s |-> line]>> \o queue
          /\ nemit' = nemit + 1
          /\ last' = Step("emit", nemit + 1, "ok")
          /\ UNCHANGED <<session, task, tpc, tcancel, tcanc, tfin, tcur, cpc, cw,
                         waitq, csnap, sent, npass, ntask, svars>>
    \/ /\ last' = Step("emit", 0, "error")
       /\ UNCHANGED <<queue, session, task, tpc, tcancel, tcanc, tfin, tcur, cpc,
                      cw, waitq, csnap, sent, nemit, npass, ntask, svars>>

\* lines 44-50: format the record and enqueue the line, or, when format()
\* raises, hand the record to handleError
emit ==
    \/ \E line \in Lines :
          /\ nemit < MaxEmit
          /\ queue' = Append(queue, [n |-> nemit + 1, s |-> line])
          /\ nemit' = nemit + 1
          /\ last' = Step("emit", nemit + 1, "ok")
          /\ UNCHANGED <<session, task, tpc, tcancel, tcanc, tfin, tcur, cpc, cw,
                         waitq, csnap, sent, npass, ntask, svars>>
    \/ /\ last' = Step("emit", 0, "error")
       /\ UNCHANGED <<queue, session, task, tpc, tcancel, tcanc, tfin, tcur, cpc,
                      cw, waitq, csnap, sent, nemit, npass, ntask, svars>>

(***************************************************************************)
(* _flush_loop, one action per resumption of the task.                     *)
(***************************************************************************)
\* the task's first step.  A task cancelled before it has run gets the
\* CancelledError thrown at the start of its coroutine, outside the try of
\* line 63: it ends without running any of _flush_loop.  The event loop runs
\* what is ready in the order it became ready: the callers awaiting a task
\* that finished before this one was created resume before its first step.
run(t) ==
    /\ tpc[t] = "created"
    /\ \A c \in Closers : cpc[c] = "await" /\ tpc[cw[c]] \in Finished => tfin[cw[c]] >= t
    /\ tpc' = [tpc EXCEPT ![t] = IF tcancel[t] THEN "cancelled" ELSE "sleep"]
    /\ tcancel' = [tcancel EXCEPT ![t] = FALSE]
    /\ last' = Step("run", t, IF tcancel[t] THEN "cancelled" ELSE "sleep")
    /\ tfin' = [tfin EXCEPT ![t] = IF tpc'[t] \in Finished THEN ntask ELSE @]
    /\ UNCHANGED <<queue, session, task, tcanc, tcur, cpc, cw, waitq,
                   csnap, sent, nemit, npass, ntask, svars>>

\* lines 64-65: the sleep is over, _flush runs
timer(t) ==
    /\ tpc[t] = "sleep"
    /\ ~tcancel[t]
    /\ flush(t, FALSE)
    /\ last' = Step("timer", t, IF queue = <<>> THEN "empty" ELSE "pass")
    /\ UNCHANGED <<task, tcancel, tcanc, tfin, cpc, cw, waitq, csnap, nemit, ntask, svars>>

\* a failed post ends the pass as an exception of the pass would
SendDoneAbort(t) ==
    /\ tpc[t] \in {"send", "final_send"}
    /\ ~tcancel[t]
    /\ \E outcome \in {"ok", "failed"} :
          /\ last' = Step("sent", t, outcome)
          /\ IF outcome = "ok"
             THEN SendOrEnd(t, tcur[t], tpc[t] = "final_send")
             ELSE /\ tpc' = [tpc EXCEPT ![t] = IF tpc[t] = "send" THEN "sleep" ELSE "done"]
                  /\ tcur' = [tcur EXCEPT ![t] = NoPass]
                  /\ UNCHANGED <<sent, session>>
    /\ tfin' = [tfin EXCEPT ![t] = IF tpc'[t] \in Finished THEN ntask ELSE @]
    /\ UNCHANGED <<queue, task, tcancel, tcanc, cpc, cw, waitq, csnap, nemit,
                   npass, ntask, svars>>

\* lines 135-146 and 98-99: the post is over, with status 200 ("ok") or with
\* another status or an exception ("failed"), which _send_message reports on
\* stderr; it returns either way, and the loop over parts goes on
send_done(t) ==
    /\ tpc[t] \in {"send", "final_send"}
    /\ ~tcancel[t]
    /\ SendOrEnd(t, tcur[t], tpc[t] = "final_send")
    /\ \E outcome \in {"ok", "failed"} : last' = Step("sent", t, outcome)
    /\ tfin' = [tfin EXCEPT ![t] = IF tpc'[t] \in Finished THEN ntask ELSE @]
    /\ UNCHANGED <<queue, task, tcancel, tcanc, cpc, cw, waitq, csnap, nemit,
                   npass, ntask, svars>>

\* lines 66-69: CancelledError is thrown into the task where it is suspended.
\* In the sleep, or in the post of a regular pass (except Exception of line
\* 142 does not catch it, the rest of the parts is dropped), the handler of
\* line 66 runs the final _flush.  In a post of the final _flush it leaves the
\* handler and ends the task.
cancelled(t) ==
    /\ tpc[t] \in {"sleep", "send", "final_send"}
    /\ tcancel[t]
    /\ tcancel' = [tcancel EXCEPT ![t] = FALSE]
    /\ IF tpc[t] = "final_send"
       THEN /\ tpc' = [tpc EXCEPT ![t] = "cancelled"]
            /\ tcur' = [tcur EXCEPT ![t] = NoPass]
            /\ UNCHANGED <<queue, session, sent, npass>>
       ELSE flush(t, TRUE)
    /\ last' = Step("cancel", t, tpc[t])
    /\ tfin' = [tfin EXCEPT ![t] = IF tpc'[t] \in Finished THEN ntask ELSE @]
    /\ UNCHANGED <<task, tcanc, cpc, cw, waitq, csnap, nemit, ntask, svars>>

\* an exception of a pass that ends the task, whatever the pass
RaisedEnds(t) ==
    /\ tpc[t] \in {"send", "final_send"}
    /\ ~tcancel[t]
    /\ tpc' = [tpc EXCEPT ![t] = "failed"]
    /\ tcur' = [tcur EXCEPT ![t] = NoPass]
    /\ last' = Step("raise", t, tpc[t])
    /\ tfin' = [tfin EXCEPT ![t] = IF tpc'[t] \in Finished THEN ntask ELSE @]
    /\ UNCHANGED <<queue, session, task, tcancel, tcanc, cpc, cw, waitq, csnap,
                   sent, nemit, npass, ntask, svars>>

\* lines 70-75: an exception other than CancelledError leaves _flush while
\* the task is in a pass.  In a regular pass line 70 catches it, reports it
\* and the loop sleeps again; raised in the final _flush of line 68 it is
\* outside the try and ends the task.
raised(t) ==
    /\ tpc[t] \in {"send", "final_send"}
    /\ ~tcancel[t]
    /\ tpc' = [tpc EXCEPT ![t] = IF tpc[t] = "send" THEN "sleep" ELSE "failed"]
    /\ tcur' = [tcur EXCEPT ![t] = NoPass]
    /\ last' = Step("raise", t, tpc[t])
    /\ tfin' = [tfin EXCEPT ![t] = IF tpc'[t] \in Finished THEN ntask ELSE @]
    /\ UNCHANGED <<queue, session, task, tcancel, tcanc, cpc, cw, waitq, csnap,
                   sent, nemit, npass, ntask, svars>>

(***************************************************************************)
(* async_close().  st is the handler state a caller reads and writes       *)
(* between two awaits: [task, session, cpc].                               *)
(***************************************************************************)
\* lines 158-160, up to the await: an open session is closed (the caller
\* awaits close() with the field still set), otherwise the call returns
close_session(c, st) ==
    IF st.session = "open"
    THEN [st EXCEPT !.session = "closed", !.cpc[c] = "closing"]
    ELSE [st EXCEPT !.cpc[c] = "returned"]

\* lines 153-160: await self._task is over.  The task's return and its
\* CancelledError both lead to line 156; another exception of the task leaves
\* async_close at line 153.
resume(c, st, t) ==
    IF tpc[t] = "failed"
    THEN [st EXCEPT !.cpc[c] = "raised"]
    ELSE close_session(c, [st EXCEPT !.task = 0])

RECURSIVE ResumeAll(_, _, _)
ResumeAll(cs, st, t) ==
    IF cs = <<>> THEN st ELSE ResumeAll(Tail(cs), resume(Head(cs), st, t), t)

\* lines 148-160, up to the first await.  cancel() of a finished task does
\* nothing and awaiting it does not suspend.  Each caller calls once, and the
\* callers call in the order of their numbers.
async_close(c) ==
    /\ cpc[c] = "idle"
    /\ \A d \in Closers : d < c => cpc[d] # "idle"
    /\ csnap' = [csnap EXCEPT ![c] = nemit]
    /\ IF task # 0 /\ tpc[task] \notin Finished
       THEN /\ tcancel' = [tcancel EXCEPT ![task] = TRUE]
            /\ tcanc' = [tcanc EXCEPT ![task] = TRUE]
            /\ cpc' = [cpc EXCEPT ![c] = "await"]
            /\ cw' = [cw EXCEPT ![c] = task]
            /\ waitq' = Append(waitq, c)
            /\ UNCHANGED <<task, session>>
       ELSE LET st0 == [task |-> task, session |-> session, cpc |-> cpc]
                st == IF task # 0 THEN resume(c, st0, task) ELSE close_session(c, st0)
            IN /\ task' = st.task
               /\ session' = st.session
               /\ cpc' = st.cpc
               /\ UNCHANGED <<tcancel, tcanc, cw, waitq>>
    /\ last' = Step("close", c, "")
    /\ UNCHANGED <<queue, tpc, tfin, tcur, sent, nemit, npass, ntask, svars>>

\* lines 153-160: the task has finished; the callers awaiting it resume one
\* after the other, in the order they began to wait, each up to its next await
wake(t) ==
    /\ tpc[t] \in Finished
    /\ \E c \in Closers : cpc[c] = "await" /\ cw[c] = t
    /\ LET ws == SelectSeq(waitq, LAMBDA c : cw[c] = t)
           st == ResumeAll(ws, [task |-> task, session |-> session, cpc |-> cpc], t)
       IN /\ task' = st.task
          /\ session' = st.session
          /\ cpc' = st.cpc
    /\ waitq' = SelectSeq(waitq, LAMBDA c : cw[c] # t)
    /\ last' = Step("wake", t, "")
    /\ UNCHANGED <<queue, tpc, tcancel, tcanc, tfin, tcur, cw, csnap, sent,
                   nemit, npass, ntask, svars>>

\* lines 159-160: session.close() is over
session_closed(c) ==
    /\ cpc[c] = "closing"
    /\ session' = "none"
    /\ cpc' = [cpc EXCEPT ![c] = "returned"]
    /\ last' = Step("closed", c, "")
    /\ UNCHANGED <<queue, task, tpc, tcancel, tcanc, tfin, tcur, cw, waitq,
                   csnap, sent, nemit, npass, ntask, svars>>

(***************************************************************************)
(* The handler: every interleaving of its callers and its flush tasks.     *)
(* SpecFault adds exceptions raised inside a pass.                         *)
(***************************************************************************)
Next ==
    \/ start
    \/ emit
    \/ \E t \in Tasks : run(t)
    \/ \E t \in Tasks : timer(t)
    \/ \E t \in Tasks : send_done(t)
    \/ \E t \in Tasks : cancelled(t)
    \/ \E c \in Closers : async_close(c)
    \/ \E t \in Tasks : wake(t)
    \/ \E c \in Closers : session_closed(c)

Spec == Init /\ [][Next]_vars

NextFault ==
    \/ Next
    \/ \E t \in Tasks : raised(t)

SpecFault == Init /\ [][NextFault]_vars

(***************************************************************************)
(* _split_text on its own, one step per loop iteration, for every text of  *)
(* at most MaxLen characters and every limit of 1..MaxL.                   *)
(***************************************************************************)
InitSplit ==
    /\ queue = <<>>
    /\ session = "none"
    /\ task = 0
    /\ tpc = [t \in Tasks |-> "unborn"]
    /\ tcancel = [t \in Tasks |-> FALSE]
    /\ tcanc = [t \in Tasks |-> FALSE]
    /\ tfin = [t \in Tasks |-> 0]
    /\ tcur = [t \in Tasks |-> NoPass]
    /\ cpc = [c \in Closers |-> "idle"]
    /\ cw = [c \in Closers |-> 0]
    /\ waitq = <<>>
    /\ csnap = [c \in Closers |-> 0]
    /\ sent = <<>>
    /\ nemit = 0
    /\ npass = 0
    /\ ntask = 0
    /\ last = Step("init", 0, "")
    /\ s_in \in Str(Alphabet, MaxLen)
    /\ s_max \in 1..MaxL
    /\ s_text = s_in
    /\ s_chunks = <<>>
    /\ s_pc = "call"

\* lines 105-108
split_enter ==
    /\ s_pc = "call"
    /\ IF Len(s_text) <= s_max
       THEN s_chunks' = <<s_text>> /\ s_pc' = "done"
       ELSE s_chunks' = <<>> /\ s_pc' = "loop"
    /\ UNCHANGED <<s_in, s_max, s_text, hvars>>

\* lines 109-123
split_iter ==
    /\ s_pc = "loop"
    /\ LET r == LoopBody(s_text, s_max, s_chunks)
       IN /\ s_text' = r.text
          /\ s_chunks' = r.chunks
          /\ s_pc' = IF r.done THEN "done" ELSE "loop"
    /\ UNCHANGED <<s_in, s_max, hvars>>

NextSplit == split_enter \/ split_iter

SpecSplit == InitSplit /\ [][NextSplit]_vars

\* the call runs on: a loop iteration that can be taken is taken
SpecSplitFair == SpecSplit /\ WF_vars(NextSplit)

\* the stepwise run and the function agree
SplitAgrees == s_pc = "done" => s_chunks = split_text(s_in, s_max)


(***************************************************************************)
(* The claims.                                                             *)
(***************************************************************************)
Range(f) == {f[i] : i \in DOMAIN f}

\* the serial numbers of the lines of the passes that reached _send_message
DeliveredIds == UNION {Range(Ids(sent[i].batch)) : i \in 1..Len(sent)}

Pre == <<"<", "p", "r", "e", ">">>

Post == <<"<", "/", "p", "r", "e", ">">>

\* html.escape("\n".join(lines)) of every list of lines the bounds allow
EscapedOf ==
    [lines \in Str(Lines, MaxEmit) |-> escape(join([i \in 1..Len(lines) |-> Formatted[lines[i]]]))] @@ <<>>

EscapedOfBatch(batch) == EscapedOf[[i \in 1..Len(batch) |-> batch[i].s]]

\* C1: when an async_close() that cancelled a flush task has returned, every
\* line enqueued before it was called is in a batch that reached
\* _send_message, and the task it cancelled has finished.
C1_ShutdownDrain ==
    \A c \in Closers :
        (cpc[c] = "returned" /\ cw[c] # 0) =>
            /\ \A n \in 1..csnap[c] : n \in DeliveredIds
            /\ tpc[cw[c]] \in Finished

\* C2: every text handed to _send_message is at most
\* TELEGRAM_MAX_MESSAGE_LENGTH characters long.
C2_PayloadWithinLimit ==
    \A i \in 1..Len(sent) : Len(Payload(sent[i])) <= TELEGRAM_MAX_MESSAGE_LENGTH

\* a batch was split, and a part of it fills max_content to the last character
C2_Witness ==
    \E i \in 1..Len(sent) :
        /\ Len(PartsOfBatch(sent[i].batch)) >= 2
        /\ Len(Payload(sent[i])) = max_content + Len(Pre) + Len(Post)

\* C3: of two _send_message calls, the later one is of the same pass as the
\* earlier one or carries only lines enqueued after every line of the earlier
\* one; within a batch the lines are in the order they were enqueued.
C3_DeliveryOrder ==
    /\ \A i, j \in 1..Len(sent) :
          i < j =>
              \/ sent[i].pass = sent[j].pass
              \/ \A a \in Range(Ids(sent[i].batch)), b \in Range(Ids(sent[j].batch)) : a < b
    /\ \A i \in 1..Len(sent) :
          \A x, y \in 1..Len(sent[i].batch) :
              x < y => sent[i].batch[x].n < sent[i].batch[y].n

\* C4: a pass that drains lines whose joined, escaped text fits max_content
\* calls _send_message once, with "<pre>" + escape(lines joined by "\n") +
\* "</pre>", and leaves the queue empty; no pass of such lines has a second call.
C4_SinglePayload ==
    [][/\ (npass' = npass + 1 /\ Len(EscapedOfBatch(queue)) <= max_content) =>
             /\ queue' = <<>>
             /\ Len(sent') = Len(sent) + 1
             /\ sent'[Len(sent')].batch = queue
             /\ Payload(sent'[Len(sent')]) = Pre \o EscapedOfBatch(queue) \o Post
       /\ \A i, j \in 1..Len(sent') :
             (/\ sent'[i].pass = sent'[j].pass
              /\ Len(EscapedOfBatch(sent'[i].batch)) <= max_content) => i = j]_vars

\* the lines "<" and "" were drained together and sent as <pre>&lt;\n</pre>
C4_Witness ==
    \E i \in 1..Len(sent) :
        /\ Texts(sent[i].batch) = << <<"<">>, <<>> >>
        /\ Payload(sent[i]) = <<"<", "p", "r", "e", ">", "&", "l", "t", ";", NL,
                                "<", "/", "p", "r", "e", ">">>
        /\ tpc[sent[i].task] = "sleep"
        /\ queue = <<>>

\* C5: when a post has failed, _send_message is called with the next part of
\* the pass, if there is one, in the same step; the queue is as it was, and
\* no part of a pass is handed to _send_message twice.
C5_FailedSendGoesOn ==
    [][(last'.op = "sent" /\ last'.info = "failed") =>
          LET t == last'.id
              cur == tcur[t]
          IN /\ queue' = queue
             /\ IF cur.k < cur.n
                THEN /\ sent' = Append(sent, [pass |-> cur.pass, batch |-> cur.batch,
                                              k |-> cur.k + 1, task |-> t])
                     /\ tpc'[t] = tpc[t]
                ELSE sent' = sent
             /\ \A i, j \in 1..Len(sent') :
                   (sent'[i].pass = sent'[j].pass /\ sent'[i].k = sent'[j].k) => i = j]_vars

\* the first post of a pass has failed and the second part is being posted
C5_Witness ==
    /\ last.op = "sent"
    /\ last.info = "failed"
    /\ tpc[last.id] = "send"
    /\ tcur[last.id].k = 2
    /\ sent[Len(sent)].pass = tcur[last.id].pass
    /\ sent[Len(sent)].k = 2

\* C6: an exception raised in a regular pass leaves the task sleeping for the
\* next interval, and a task finishes only after cancel() was requested of it.
C6_ErrorKeepsLoop ==
    [][/\ (last'.op = "raise" /\ last'.info = "send") => tpc'[last'.id] = "sleep"
       /\ \A t \in Tasks : tpc'[t] \in Finished => tcanc'[t]]_vars

\* an exception was raised in a regular pass of a task nobody has cancelled
C6_Witness ==
    /\ last.op = "raise"
    /\ last.info = "send"
    /\ tpc[last.id] = "sleep"
    /\ ~tcanc[last.id]

\* C7: start() with a task in self._task changes nothing of the handler and
\* creates no task; start() without one creates one task and stores it.
C7_StartIdempotent ==
    [][/\ last'.op = "start" =>
             IF task # 0
             THEN UNCHANGED <<queue, session, task, tpc, tcancel, tcur, sent, cpc, ntask>>
             ELSE /\ ntask' = ntask + 1
                  /\ task' = ntask'
                  /\ tpc' = [tpc EXCEPT ![ntask'] = "created"]
                  /\ UNCHANGED <<queue, session>>
       /\ ntask' # ntask => task = 0]_vars

\* start() was called while the task was posting
C7_Witness ==
    /\ last = Step("start", task, "noop")
    /\ task # 0
    /\ tpc[task] = "send"

\* C8: emit() of a record that formats adds its line at the tail of the
\* queue; emit() of one that does not leaves the queue as it was; either way
\* nothing else of the handler changes.
C8_EmitAppends ==
    [][last'.op = "emit" =>
          /\ IF last'.info = "ok"
             THEN /\ Len(queue') = Len(queue) + 1
                  /\ SubSeq(queue', 1, Len(queue)) = queue
                  /\ queue'[Len(queue')].s \in Lines
             ELSE queue' = queue
          /\ UNCHANGED <<session, task, tpc, tcancel, tcur, sent, cpc, cw, npass, ntask>>]_vars

\* a second line was enqueued behind a first one
C8_Witness ==
    /\ last.op = "emit"
    /\ last.info = "ok"
    /\ Len(queue) = 2
    /\ queue[1].n = 1
    /\ queue[2].n = 2

\* C9: no chunk _split_text has produced is longer than max_length.
C9_ChunkWithinLimit ==
    \A i \in 1..Len(s_chunks) : Len(s_chunks[i]) <= s_max

\* a text without newline was hard-split: a chunk of exactly max_length
C9_Witness ==
    /\ s_pc = "done"
    /\ Len(s_chunks) >= 2
    /\ \A i \in 1..Len(s_in) : s_in[i] # NL
    /\ Len(s_chunks[1]) = s_max

\* C10: _split_text returns no empty chunk, except [""] for the empty text.
C10_NoEmptyChunk ==
    s_pc = "done" =>
        IF s_in = <<>> THEN s_chunks = << <<>> >>
        ELSE \A i \in 1..Len(s_chunks) : s_chunks[i] # <<>>

\* s begins with p
IsPrefix(p, s) == Len(p) <= Len(s) /\ SubSeq(s, 1, Len(p)) = p

\* s is the chunks cs in their order, each followed by newlines that are in
\* no chunk; after the last chunk there are such newlines only if atEnd
RECURSIVE Rebuilds(_, _, _)
Rebuilds(s, cs, atEnd) ==
    IF cs = <<>> THEN s = <<>>
    ELSE /\ IsPrefix(Head(cs), s)
         /\ LET r == SubSeq(s, Len(Head(cs)) + 1, Len(s))
            IN \E g \in 0..Len(r) :
                  /\ \A i \in 1..g : r[i] = NL
                  /\ (Len(cs) = 1 /\ ~atEnd) => g = 0
                  /\ Rebuilds(SubSeq(r, g + 1, Len(r)), Tail(cs), atEnd)

\* C11 as stated: the chunks _split_text returns are, in order, the text
\* without some newlines, and every newline left out lies between two
\* consecutive chunks.
C11_RebuildsBetween ==
    s_pc = "done" => Rebuilds(s_in, s_chunks, FALSE)

\* C11, amended: the chunks _split_text returns are, in order, the text
\* without some newlines, and every newline left out directly follows the end
\* of a chunk: between two consecutive chunks, or after the last chunk when
\* only newlines follow it.  No other character is lost, doubled or moved.
C11_Rebuilds ==
    s_pc = "done" => Rebuilds(s_in, s_chunks, TRUE)

\* a text was split in two at a newline, which is in neither chunk
C11_Witness ==
    /\ s_pc = "done"
    /\ Len(s_chunks) = 2
    /\ s_chunks[1] # <<>>
    /\ s_chunks[2] # <<>>
    /\ Len(s_chunks[1]) + Len(s_chunks[2]) + 1 = Len(s_in)
    /\ s_in[Len(s_chunks[1]) + 1] = NL

\* the parts k of the pass of sent[i] that were handed to _send_message
SentParts(i) == {sent[j].k : j \in {x \in 1..Len(sent) : sent[x].pass = sent[i].pass}}

\* C12: a cancellation is thrown into a flush task only while it sleeps, never
\* while it awaits a post; and when a flush task has finished, every part of
\* every batch it drained was handed to _send_message.
C12_CancelKeepsDelivery ==
    /\ last.op = "cancel" => last.info = "sleep"
    /\ \A i \in 1..Len(sent) :
          tpc[sent[i].task] \in Finished =>
              SentParts(i) = 1..Len(PartsOfBatch(sent[i].batch))

\* the step begins the final _flush of task t (line 68)
FinalPassBegins(t) ==
    last'.op = "cancel" /\ last'.id = t /\ last'.info \in {"sleep", "send"}

\* C13: a flush task that cancel() was requested of makes exactly one more
\* pass: it finishes only out of its final _flush, begins that _flush once,
\* and never sleeps nor begins a regular pass after the request.
C13_OneFinalPass ==
    [][\A t \in Tasks :
          /\ (tpc'[t] \in Finished /\ tpc[t] \notin Finished) =>
                 tpc[t] = "final_send" \/ FinalPassBegins(t)
          /\ FinalPassBegins(t) => tpc[t] \in {"sleep", "send"}
          /\ (tcanc[t] /\ tpc'[t] # tpc[t]) =>
                 tpc'[t] \in {"final_send"} \cup Finished
          /\ tpc[t] = "final_send" => tpc'[t] \in {"final_send"} \cup Finished]_vars

\* the flush tasks that exist and have not finished; those awaiting a post
Alive == {t \in Tasks : tpc[t] \in {"created", "sleep", "send", "final_send"}}

Posting == {t \in Tasks : tpc[t] \in {"send", "final_send"}}

\* C14: at most one flush task is alive and at most one post is awaited at a
\* time, and between two _send_message calls of one pass there is no call of
\* another pass.
C14_NoOverlap ==
    /\ Cardinality(Alive) <= 1
    /\ Cardinality(Posting) <= 1
    /\ \A i, j \in 1..Len(sent) :
          (i < j /\ sent[i].pass = sent[j].pass) =>
              \A x \in i..j : sent[x].pass = sent[i].pass

\* C15: while an async_close() awaits the close of the session no flush task
\* is alive, and when an async_close() returns no flush task is alive and the
\* handler holds no open session.
C15_SessionExclusive ==
    [][\A c \in Closers :
          /\ cpc'[c] = "closing" => Alive' = {}
          /\ (cpc'[c] = "returned" /\ cpc[c] # "returned") =>
                 (Alive' = {} /\ session' # "open")]_vars

\* the chunker as the specification words it: while the text is longer than
\* L, split at the rightmost newline at an offset p <= L and strip the leading
\* newlines of the rest, or, without such a newline, split at L; what is left
\* is the last chunk (none, as in the code, when nothing is left)
RECURSIVE RefSplit(_, _, _)
RefSplit(text, L, chunks) ==
    IF Len(text) <= L
    THEN IF text = <<>> /\ chunks # <<>> THEN chunks ELSE Append(chunks, text)
    ELSE LET p == rfind(text, 0, L + 1)
         IN IF p # -1
            THEN RefSplit(lstrip(SubSeq(text, p + 1, Len(text))), L,
                          Append(chunks, SubSeq(text, 1, p)))
            ELSE RefSplit(SubSeq(text, L + 1, Len(text)), L,
                          Append(chunks, SubSeq(text, 1, L)))

\* C16: _split_text returns the chunks of the specification's algorithm, which
\* splits at the rightmost newline at an offset p <= max_length, offset
\* max_length included.
C16_SplitAsSpecified ==
    s_pc = "done" => s_chunks = RefSplit(s_in, s_max, <<>>)

\* C17: no _send_message call is made with an empty part, the text between
\* <pre> and </pre>.
C17_NoEmptyPayload ==
    \A i \in 1..Len(sent) : PartsOfBatch(sent[i].batch)[sent[i].k] # <<>>

\* C18: a pass that finds the queue empty calls _send_message for nothing,
\* creates no session and leaves queue, session and task as they were; the
\* regular pass leaves the task sleeping for the next interval (the final
\* pass ends it), and no exception comes out of the pass.
C18_EmptyPass ==
    [][\A t \in Tasks :
          /\ (last'.op = "timer" /\ last'.id = t /\ queue = <<>>) =>
                 /\ UNCHANGED <<queue, session, task, sent, npass>>
                 /\ tpc'[t] = "sleep"
                 /\ tcur'[t] = NoPass
          /\ (last'.op = "cancel" /\ last'.id = t /\ last'.info # "final_send"
                 /\ queue = <<>>) =>
                 /\ UNCHANGED <<queue, session, task, sent, npass>>
                 /\ tpc'[t] = "done"
          /\ (last'.op = "raise" /\ last'.id = t) => tcur[t].n > 0]_vars

\* a regular pass has found the queue empty: nothing sent, no session, the
\* task sleeps again
C18_Witness ==
    /\ last.op = "timer"
    /\ last.info = "empty"
    /\ tpc[last.id] = "sleep"
    /\ task = last.id
    /\ queue = <<>>
    /\ sent = <<>>
    /\ session = "none"

\* an iteration of the loop of _split_text leaves the text strictly shorter
\* or ends the loop
Shortens ==
    (s_pc = "loop" /\ s_pc' = "loop") => Len(s_text') < Len(s_text)

\* C19 as stated: every call of _split_text ends; each iteration of its loop
\* leaves the remaining text strictly shorter; and with a remaining text of at
\* most max_length characters the loop ends at once, that text appended as
\* the last chunk.
C19_TerminatesAppending ==
    /\ [][/\ Shortens
          /\ (s_pc = "loop" /\ Len(s_text) <= s_max) =>
                 (s_pc' = "done" /\ s_chunks' = Append(s_chunks, s_text))]_vars
    /\ <>(s_pc = "done")

\* C19, amended: every call of _split_text ends; each iteration of its loop
\* leaves the remaining text strictly shorter; and with a remaining text of at
\* most max_length characters the loop ends at once, that text appended as
\* the last chunk unless it is empty, when nothing is appended.
C19_Terminates ==
    /\ [][/\ Shortens
          /\ (s_pc = "loop" /\ Len(s_text) <= s_max) =>
                 /\ s_pc' = "done"
                 /\ s_chunks' = IF s_text = <<>> THEN s_chunks
                                ELSE Append(s_chunks, s_text)
          /\ (s_pc = "loop" /\ Len(s_text) > s_max) => s_pc' = "loop"]_vars
    /\ <>(s_pc = "done")

\* a call has ended whose text began with a newline and was longer than the
\* limit: the first split was at offset 0
C19_Witness ==
    /\ s_pc = "done"
    /\ Len(s_in) > s_max
    /\ s_in[1] = NL
    /\ s_chunks[1] = <<>>
    /\ Len(s_chunks) >= 2

\* the character entities html.escape produces
Entities == {EscChar(c) : c \in {"&", "<", ">", "\"", "'"}}

\* every "&" of the text begins an entity that is whole within the text
WholeEntities(text) ==
    \A i \in 1..Len(text) :
        text[i] = "&" =>
            \E e \in Entities :
                /\ i + Len(e) - 1 <= Len(text)
                /\ SubSeq(text, i, i + Len(e) - 1) = e

\* C20: no part handed to _send_message ends inside a character entity of the
\* escaped batch.
C20_EntitiesWhole ==
    \A i \in 1..Len(sent) : WholeEntities(PartsOfBatch(sent[i].batch)[sent[i].k])

====
